---- MODULE Spec2Model ----
(***************************************************************************)
(* Policy Compliance Checker (RAG): a model of ComplianceChecker           *)
(* (src/compliance_checker.py) and of the Rules Explorer page              *)
(* (src/app.py, show_rules_explorer).                                      *)
(*                                                                         *)
(* Text is modelled as a sequence of tokens (strings); concatenation of    *)
(* text is \o.  A Python dict is modelled as a sequence of                 *)
(* [key, value] items with distinct keys, in insertion order.              *)
(***************************************************************************)
EXTENDS Integers, Sequences, FiniteSets, TLC

VARIABLES
    rules_file,     \* the file at rules_path handed to ComplianceChecker.__init__
    ctor,           \* outcome of the constructor: "constructed" or the exception raised
    self,           \* the checker's attributes (vectorstore, llm, compliance_rules)
    pc,             \* position of the current call: idle, searching, generating, returned, raised
    frame,          \* the current call's arguments: operation, query/question, top_k
    relevant_docs,  \* local relevant_docs of the current call
    prompt,         \* local prompt of the current call
    result,         \* the dict returned by the current call (NoResult until it returns)
    error,          \* the exception propagated out of the current call (NoError if none)
    log,            \* the external calls made by the current call, in order, with outcomes
    observing,      \* whether prompts handed to the backend are being recorded
    observed,       \* one recorded (inputs, prompt) pair of an earlier call, or NotObserved
    app_file,       \* the file compliance_rules.json read by load_data (app.py)
    app_rules,      \* compliance_rules as loaded by load_data
    severity_filter,\* selection of the severity multiselect
    shown,          \* rule ids of the expanders the explorer created, in order
    page            \* outcome of rendering the Rules Explorer page

vars == <<rules_file, ctor, self, pc, frame, relevant_docs, prompt, result, error,
          log, observing, observed, app_file, app_rules, severity_filter, shown, page>>

checkerVars == <<rules_file, ctor, self, pc, frame, relevant_docs, prompt, result,
                 error, log, observing, observed>>

explorerVars == <<app_file, app_rules, severity_filter, shown, page>>

(***************************************************************************)
(* Bounds                                                                  *)
(***************************************************************************)
\* largest top_k a caller passes
MaxK == 2
\* largest number of "id": {...} members in a rules file
MaxRules == 2

(***************************************************************************)
(* Sequence helpers                                                        *)
(***************************************************************************)
SeqsUpTo(S, n) == UNION {[1..m -> S] : m \in 0..n}

\* sep.join(parts): the parts with sep between consecutive ones; "" for no part
RECURSIVE JoinFrom(_, _)
JoinFrom(sep, parts) ==
    IF parts = <<>> THEN <<>> ELSE sep \o Head(parts) \o JoinFrom(sep, Tail(parts))

Join(sep, parts) ==
    IF parts = <<>> THEN <<>> ELSE Head(parts) \o JoinFrom(sep, Tail(parts))

\* sub occurs in text as a contiguous run of tokens
Contains(text, sub) ==
    \E i \in 0..(Len(text) - Len(sub)) : SubSeq(text, i + 1, i + Len(sub)) = sub

(***************************************************************************)
(* Rule records and rule files                                             *)
(***************************************************************************)
SeverityOptions == {"HIGH", "MEDIUM", "LOW"}

\* the fields of a rule record, in the order the rules file writes them
FieldOrder == <<"name", "description", "severity", "check", "remediation", "related_columns">>

RuleHigh ==
    [name |-> "Party ID", description |-> "parties named", severity |-> "HIGH",
     check |-> "party names present", remediation |-> "name the parties",
     related_columns |-> <<"Parties">>]

RuleLow ==
    [name |-> "Notice", description |-> "notice period", severity |-> "LOW",
     check |-> "notice stated", remediation |-> "state the notice",
     related_columns |-> <<>>]

\* a record whose severity is none of the three options
RuleBadSeverity == [RuleLow EXCEPT !.severity = "CRITICAL"]

\* a record without the severity field
RuleNoSeverity ==
    [name |-> "Renewal", description |-> "renewal terms",
     check |-> "renewal stated", remediation |-> "state the renewal",
     related_columns |-> <<"Renewal Term">>]

\* a HIGH record without the check field
RuleHighNoCheck ==
    [name |-> "Governing Law", description |-> "law named", severity |-> "HIGH",
     remediation |-> "name the law", related_columns |-> <<>>]

\* the "id": {...} members a rules file is written from
Members ==
    { <<"R1", RuleHigh>>, <<"R2", RuleLow>>, <<"R1", RuleBadSeverity>>,
      <<"R3", RuleNoSeverity>>, <<"R2", RuleHighNoCheck>>, <<"R3", RuleHigh>> }

\* a rules file: absent, not JSON, or a JSON object with up to MaxRules members
RuleFiles ==
    { [status |-> "missing", members |-> <<>>], [status |-> "malformed", members |-> <<>>] }
    \cup { [status |-> "ok", members |-> ms] : ms \in SeqsUpTo(Members, MaxRules) }

HasKey(d, k) == \E i \in 1..Len(d) : d[i].key = k

\* d[k] = v on a Python dict: overwrite in place, or insert at the end
DictSet(d, k, v) ==
    IF HasKey(d, k)
    THEN [i \in 1..Len(d) |-> IF d[i].key = k THEN [key |-> k, value |-> v] ELSE d[i]]
    ELSE Append(d, [key |-> k, value |-> v])

RECURSIVE ObjectToDict(_, _)
ObjectToDict(members, d) ==
    IF members = <<>> THEN d
    ELSE ObjectToDict(Tail(members), DictSet(d, Head(members)[1], Head(members)[2]))

\* every field show_rules_explorer and the prompt rely on, with an enumerated severity
RequiredFields == {"name", "description", "severity", "check", "remediation", "related_columns"}

ValidRule(r) == RequiredFields \subseteq DOMAIN r /\ r.severity \in SeverityOptions

\* variant: a load that silently drops the records failing validation
JsonLoadValidated(file) ==
    ObjectToDict(SelectSeq(file.members, LAMBDA m : ValidRule(m[2])), <<>>)

\* json.load(f) on a well-formed file: the object's members as a dict; no field is checked
JsonLoad(file) == ObjectToDict(file.members, <<>>)

\* json.dumps of one rule record: its fields, in order, as key and value tokens
DumpValue(f, v) == IF f = "related_columns" THEN <<"[">> \o v \o <<"]">> ELSE <<v>>

DumpRecord(r) ==
    <<"{">> \o
    Join(<<",">>, [i \in 1..Len(SelectSeq(FieldOrder, LAMBDA f : f \in DOMAIN r)) |->
                      LET f == SelectSeq(FieldOrder, LAMBDA g : g \in DOMAIN r)[i]
                      IN  <<f, ":">> \o DumpValue(f, r[f])])
    \o <<"}">>

DumpItem(item) == <<item.key, ":">> \o DumpRecord(item.value)

\* json.dumps(self.compliance_rules, indent=2)
JsonDumps(d) ==
    <<"{">> \o Join(<<",">>, [i \in 1..Len(d) |-> DumpItem(d[i])]) \o <<"}">>

(***************************************************************************)
(* Passages, queries, backend responses                                    *)
(***************************************************************************)
\* documents the index can return; two share a filename, one has none
Passages ==
    { [page_content |-> <<"Party A is Acme Corp.">>, metadata |-> [filename |-> "c1.txt"]],
      [page_content |-> <<"Renews yearly.">>,        metadata |-> [filename |-> "c1.txt"]],
      [page_content |-> <<"Notice is 30 days.">>,    metadata |-> [chunk |-> "7"]] }

Queries == { <<"Are the contracting parties identified?">>, <<"What is the notice period?">> }

\* what llm.generate_content hands back when it does not raise: a response
\* whose .text is readable, or one whose .text accessor raises (no candidate)
Responses == { [text |-> <<"1. COMPLIANT...">>], [blocked |-> TRUE] }

Operations == {"check_compliance", "answer_question"}

\* doc.metadata.get(key, default)
MetadataGet(md, key, default) == IF key \in DOMAIN md THEN md[key] ELSE default

\* vectorstore.similarity_search(query, k=top_k): the results the index may return
SimilaritySearch(query, k) == SeqsUpTo(Passages, k)

NoResult == [none |-> TRUE]
NoError == [none |-> TRUE]
NotObserved == [none |-> TRUE]
NoFrame == [none |-> TRUE]

(***************************************************************************)
(* Prompt assembly (the two f-strings)                                     *)
(***************************************************************************)
\* "\n\n---\n\n".join([doc.page_content for doc in relevant_docs])
Context(docs) == Join(<<"\n\n---\n\n">>, [i \in 1..Len(docs) |-> docs[i].page_content])

ComplianceDirective ==
    <<"\n\nProvide a detailed compliance analysis with:\n",
      "1. COMPLIANCE STATUS: [COMPLIANT/NON-COMPLIANT/PARTIAL]\n",
      "2. APPLICABLE RULES: Which rules apply\n",
      "3. EVIDENCE: Specific quotes from contracts\n",
      "4. VIOLATIONS: Any issues found\n",
      "5. REMEDIATION: Steps to fix issues\n",
      "\nResponse:\n">>

\* variant: only the HIGH-severity rules are injected
CompliancePromptRelevantOnly(rules, context, query) ==
    <<"\nYou are a legal compliance expert analyzing contracts.\n\nCOMPLIANCE RULES:\n">>
    \o JsonDumps(SelectSeq(rules, LAMBDA it :
                   "severity" \in DOMAIN it.value /\ it.value.severity = "HIGH"))
    \o <<"\n\nCONTRACT SECTIONS:\n">> \o context
    \o <<"\n\nQUERY: ">> \o query
    \o ComplianceDirective

\* the prompt of check_compliance
CompliancePrompt(rules, context, query) ==
    <<"\nYou are a legal compliance expert analyzing contracts.\n\nCOMPLIANCE RULES:\n">>
    \o JsonDumps(rules)
    \o <<"\n\nCONTRACT SECTIONS:\n">> \o context
    \o <<"\n\nQUERY: ">> \o query
    \o ComplianceDirective

\* the prompt of answer_question
AnswerPrompt(context, question) ==
    <<"\nBased on the following contract information, answer the question accurately.\n\nCONTRACT INFORMATION:\n">>
    \o context
    \o <<"\n\nQUESTION: ">> \o question
    \o <<"\n\nProvide a clear, detailed answer with specific references.\n\nAnswer:\n">>

\* variant: the question recorded from an earlier call is carried into the prompt
BuildPromptWithMemory(op, rules, docs, query) ==
    (IF observed = NotObserved THEN <<>> ELSE <<"PREVIOUS: ">> \o observed.query)
    \o (IF op = "check_compliance"
        THEN CompliancePrompt(rules, Context(docs), query)
        ELSE AnswerPrompt(Context(docs), query))

BuildPrompt(op, rules, docs, query) ==
    IF op = "check_compliance"
    THEN CompliancePrompt(rules, Context(docs), query)
    ELSE AnswerPrompt(Context(docs), query)

(***************************************************************************)
(* Result packaging                                                        *)
(***************************************************************************)
\* variant: each source listed once, at its first position
RECURSIVE Deduplicate(_, _)
Deduplicate(names, seen) ==
    IF names = <<>> THEN <<>>
    ELSE IF Head(names) \in seen THEN Deduplicate(Tail(names), seen)
    ELSE <<Head(names)>> \o Deduplicate(Tail(names), seen \cup {Head(names)})

SourcesDeduplicated(docs) ==
    Deduplicate([i \in 1..Len(docs) |-> MetadataGet(docs[i].metadata, "filename", "Unknown")], {})

\* [doc.metadata.get("filename", "Unknown") for doc in relevant_docs]
Sources(docs) == [i \in 1..Len(docs) |-> MetadataGet(docs[i].metadata, "filename", "Unknown")]

\* variant: the count requested instead of the count retrieved
NumSourcesRequested(docs) == frame.top_k

\* len(relevant_docs)
NumSources(docs) == Len(docs)

BuildResult(op, query, text, docs) ==
    IF op = "check_compliance"
    THEN [query |-> query, response |-> text, sources |-> Sources(docs),
          num_sources |-> NumSources(docs)]
    ELSE [question |-> query, answer |-> text, sources |-> Sources(docs)]

(***************************************************************************)
(* ComplianceChecker: construction                                         *)
(***************************************************************************)
\* __init__: open(rules_path) and json.load either raise or yield the rules
CtorOutcome(file) ==
    CASE file.status = "missing"   -> "FileNotFoundError"
      [] file.status = "malformed" -> "JSONDecodeError"
      [] OTHER                     -> "constructed"

NoChecker == [none |-> TRUE]

Construct(file) ==
    IF CtorOutcome(file) = "constructed"
    THEN [vectorstore |-> "vectorstore", llm |-> "llm", compliance_rules |-> JsonLoad(file)]
    ELSE NoChecker

ExplorerIdle ==
    /\ app_file = [status |-> "missing", members |-> <<>>]
    /\ app_rules = <<>>
    /\ severity_filter = {}
    /\ shown = <<>>
    /\ page = "not_opened"

InitChecker(files, obs) ==
    /\ rules_file \in files
    /\ ctor = CtorOutcome(rules_file)
    /\ self = Construct(rules_file)
    /\ pc = "idle"
    /\ frame = NoFrame
    /\ relevant_docs = <<>>
    /\ prompt = <<>>
    /\ result = NoResult
    /\ error = NoError
    /\ log = <<>>
    /\ observing = obs
    /\ observed = NotObserved

Init == InitChecker(RuleFiles, FALSE) /\ ExplorerIdle

(***************************************************************************)
(* ComplianceChecker: check_compliance and answer_question                 *)
(***************************************************************************)
\* a caller enters op(query, top_k); the first statement issues the index search
Call(op, query, k) ==
    /\ ctor = "constructed"
    /\ pc \in {"idle", "returned", "raised"}
    /\ pc' = "searching"
    /\ frame' = [op |-> op, query |-> query, top_k |-> k]
    /\ relevant_docs' = <<>>
    /\ prompt' = <<>>
    /\ result' = NoResult
    /\ error' = NoError
    /\ log' = << [call |-> "similarity_search", query |-> query, k |-> k,
                  outcome |-> "pending", docs |-> <<>>] >>
    /\ UNCHANGED <<rules_file, ctor, self, observing, observed>>
    /\ UNCHANGED explorerVars

\* variant: an empty retrieval returns at once, without invoking the backend
SearchReturnsShortCircuit(docs) ==
    /\ pc = "searching"
    /\ docs \in SimilaritySearch(frame.query, frame.top_k)
    /\ relevant_docs' = docs
    /\ IF docs = <<>>
       THEN /\ prompt' = prompt
            /\ log' = << [log[1] EXCEPT !.outcome = "returned", !.docs = docs] >>
            /\ result' = BuildResult(frame.op, frame.query, <<"No relevant documents.">>, docs)
            /\ pc' = "returned"
       ELSE /\ prompt' = BuildPrompt(frame.op, self.compliance_rules, docs, frame.query)
            /\ log' = << [log[1] EXCEPT !.outcome = "returned", !.docs = docs],
                         [call |-> "generate_content", prompt |-> prompt',
                          outcome |-> "pending"] >>
            /\ result' = result
            /\ pc' = "generating"
    /\ UNCHANGED <<rules_file, ctor, self, frame, error, observing, observed>>
    /\ UNCHANGED explorerVars

\* the search returns docs; context and prompt are built and the backend is invoked
SearchReturns(docs) ==
    /\ pc = "searching"
    /\ docs \in SimilaritySearch(frame.query, frame.top_k)
    /\ relevant_docs' = docs
    /\ prompt' = BuildPrompt(frame.op, self.compliance_rules, docs, frame.query)
    /\ log' = << [log[1] EXCEPT !.outcome = "returned", !.docs = docs],
                 [call |-> "generate_content", prompt |-> prompt', outcome |-> "pending"] >>
    /\ pc' = "generating"
    /\ observed' \in
         IF observing /\ observed = NotObserved
         THEN { NotObserved,
                [op |-> frame.op, rules |-> self.compliance_rules, docs |-> docs,
                 query |-> frame.query, top_k |-> frame.top_k, prompt |-> prompt'] }
         ELSE { observed }
    /\ UNCHANGED <<rules_file, ctor, self, frame, result, error, observing>>
    /\ UNCHANGED explorerVars

\* variant: a failed search is swallowed and the backend is asked with no context
SearchRaisesFallback ==
    /\ pc = "searching"
    /\ prompt' = BuildPrompt(frame.op, self.compliance_rules, <<>>, frame.query)
    /\ log' = << [log[1] EXCEPT !.outcome = "raised"],
                 [call |-> "generate_content", prompt |-> prompt', outcome |-> "pending"] >>
    /\ pc' = "generating"
    /\ UNCHANGED <<rules_file, ctor, self, frame, relevant_docs, result, error,
                   observing, observed>>
    /\ UNCHANGED explorerVars

\* the search raises: nothing catches it, the call ends with the exception
SearchRaises ==
    /\ pc = "searching"
    /\ log' = << [log[1] EXCEPT !.outcome = "raised"] >>
    /\ error' = [raised_by |-> "similarity_search"]
    /\ pc' = "raised"
    /\ UNCHANGED <<rules_file, ctor, self, frame, relevant_docs, prompt, result,
                   observing, observed>>
    /\ UNCHANGED explorerVars

\* variant: the answer is memoized on the checker
GenerateReturnsMemoizing(response) ==
    /\ pc = "generating"
    /\ response \in Responses
    /\ IF "text" \in DOMAIN response
       THEN /\ log' = [log EXCEPT ![Len(log)].outcome = "returned"]
            /\ result' = BuildResult(frame.op, frame.query, response.text, relevant_docs)
            /\ self' = [vectorstore |-> self.vectorstore, llm |-> self.llm,
                        compliance_rules |-> self.compliance_rules,
                        last_answer |-> response.text]
            /\ error' = error
            /\ pc' = "returned"
       ELSE /\ log' = [log EXCEPT ![Len(log)].outcome = "no_text"]
            /\ result' = result
            /\ self' = self
            /\ error' = [raised_by |-> "response.text"]
            /\ pc' = "raised"
    /\ UNCHANGED <<rules_file, ctor, frame, relevant_docs, prompt, observing, observed>>
    /\ UNCHANGED explorerVars

\* generate_content returns a response; the result dict is built from response.text
GenerateReturns(response) ==
    /\ pc = "generating"
    /\ response \in Responses
    /\ IF "text" \in DOMAIN response
       THEN /\ log' = [log EXCEPT ![Len(log)].outcome = "returned"]
            /\ result' = BuildResult(frame.op, frame.query, response.text, relevant_docs)
            /\ error' = error
            /\ pc' = "returned"
       ELSE /\ log' = [log EXCEPT ![Len(log)].outcome = "no_text"]
            /\ result' = result
            /\ error' = [raised_by |-> "response.text"]
            /\ pc' = "raised"
    /\ UNCHANGED <<rules_file, ctor, self, frame, relevant_docs, prompt, observing, observed>>
    /\ UNCHANGED explorerVars

\* variant: a failed generation is caught and a fallback answer returned
GenerateRaisesFallback ==
    /\ pc = "generating"
    /\ log' = [log EXCEPT ![Len(log)].outcome = "raised"]
    /\ result' = BuildResult(frame.op, frame.query, <<"Error">>, relevant_docs)
    /\ pc' = "returned"
    /\ UNCHANGED <<rules_file, ctor, self, frame, relevant_docs, prompt, error,
                   observing, observed>>
    /\ UNCHANGED explorerVars

\* generate_content raises: nothing catches it, the call ends with the exception
GenerateRaises ==
    /\ pc = "generating"
    /\ log' = [log EXCEPT ![Len(log)].outcome = "raised"]
    /\ error' = [raised_by |-> "generate_content"]
    /\ pc' = "raised"
    /\ UNCHANGED <<rules_file, ctor, self, frame, relevant_docs, prompt, result,
                   observing, observed>>
    /\ UNCHANGED explorerVars

Next ==
    \/ \E op \in Operations, query \in Queries, k \in 0..MaxK : Call(op, query, k)
    \/ \E docs \in SeqsUpTo(Passages, MaxK) : SearchReturns(docs)
    \/ SearchRaises
    \/ \E response \in Responses : GenerateReturns(response)
    \/ GenerateRaises

Spec == Init /\ [][Next]_vars

(***************************************************************************)
(* Prompt determinism: the same checker, with one earlier prompt recorded  *)
(***************************************************************************)
\* the catalogues the recorded runs are constructed from
ObservedFiles ==
    { [status |-> "ok", members |-> ms] :
        ms \in { <<>>, << <<"R1", RuleHigh>> >>, << <<"R1", RuleHigh>>, <<"R2", RuleLow>> >> } }

InitObserved == InitChecker(ObservedFiles, TRUE) /\ ExplorerIdle

SpecObserved == InitObserved /\ [][Next]_vars

(***************************************************************************)
(* The Rules Explorer page (app.py)                                        *)
(***************************************************************************)
\* the fields the body of an expander reads, in the order it reads them
ExpanderReads == <<"description", "severity", "check", "remediation", "related_columns">>

\* variant: the severity test is dropped, every rule gets an expander
RenderRuleIgnoringFilter(item, filter, acc) ==
    LET rule == item.value IN
    IF "severity" \notin DOMAIN rule THEN [acc EXCEPT !.raised = TRUE]
    ELSE IF "name" \notin DOMAIN rule THEN [acc EXCEPT !.raised = TRUE]
    ELSE [shown  |-> Append(acc.shown, item.key),
          raised |-> \E i \in 1..Len(ExpanderReads) : ExpanderReads[i] \notin DOMAIN rule]

\* one iteration of the for loop over compliance_rules.items(): the rule ids
\* shown so far, and whether a missing field raised KeyError
RenderRule(item, filter, acc) ==
    LET rule == item.value IN
    IF "severity" \notin DOMAIN rule THEN [acc EXCEPT !.raised = TRUE]
    ELSE IF rule.severity \notin filter THEN acc
    ELSE IF "name" \notin DOMAIN rule THEN [acc EXCEPT !.raised = TRUE]
    ELSE [shown  |-> Append(acc.shown, item.key),
          raised |-> \E i \in 1..Len(ExpanderReads) : ExpanderReads[i] \notin DOMAIN rule]

RECURSIVE RenderRules(_, _, _)
RenderRules(items, filter, acc) ==
    IF items = <<>> \/ acc.raised THEN acc
    ELSE RenderRules(Tail(items), filter, RenderRule(Head(items), filter, acc))

\* load_data succeeded or the app stopped with the load error
AppLoadOutcome(file) == IF file.status = "ok" THEN "loaded" ELSE "stopped"

InitExplorer ==
    /\ InitChecker({[status |-> "missing", members |-> <<>>]}, FALSE)
    /\ app_file \in RuleFiles
    /\ app_rules = (IF app_file.status = "ok" THEN JsonLoad(app_file) ELSE <<>>)
    /\ severity_filter = SeverityOptions
    /\ shown = <<>>
    /\ page = AppLoadOutcome(app_file)

\* show_rules_explorer(compliance_rules) with the multiselect set to filter
ShowRulesExplorer(filter) ==
    /\ page \in {"loaded", "rendered", "raised"}
    /\ filter \subseteq SeverityOptions
    /\ LET out == RenderRules(app_rules, filter, [shown |-> <<>>, raised |-> FALSE])
       IN  /\ shown' = out.shown
           /\ page' = IF out.raised THEN "raised" ELSE "rendered"
    /\ severity_filter' = filter
    /\ UNCHANGED <<app_file, app_rules>>
    /\ UNCHANGED checkerVars

NextExplorer == \E filter \in SUBSET SeverityOptions : ShowRulesExplorer(filter)

SpecExplorer == InitExplorer /\ [][NextExplorer]_vars

(***************************************************************************)
(* Properties                                                              *)
(***************************************************************************)
Tokens(text) == {text[i] : i \in 1..Len(text)}

GenerateCalls == {i \in 1..Len(log) : log[i].call = "generate_content"}

SearchCalls == {i \in 1..Len(log) : log[i].call = "similarity_search"}

InCall == pc \in {"searching", "generating", "returned", "raised"}

\* C1: a check_compliance call that returns yields num_sources equal to the
\* length of sources, and at most the top_k it was called with.
C1_NumSourcesIsLengthAndAtMostK ==
    (pc = "returned" /\ frame.op = "check_compliance") =>
        /\ result.num_sources = Len(result.sources)
        /\ result.num_sources <= frame.top_k

\* a check_compliance call asked for 2 passages and returned with 1
C1_Witness ==
    /\ pc = "returned" /\ frame.op = "check_compliance"
    /\ frame.top_k = 2 /\ result.num_sources = 1

\* C2: in the result of either operation, sources has one entry per passage
\* the index returned, in the index's order, duplicates kept: entry i is the
\* filename of passage i, or "Unknown" when passage i carries no filename.
C2_SourcesFollowRetrieval ==
    pc = "returned" =>
        LET docs == log[1].docs IN
        /\ Len(result.sources) = Len(docs)
        /\ \A i \in 1..Len(docs) :
              result.sources[i] =
                 IF "filename" \in DOMAIN docs[i].metadata
                 THEN docs[i].metadata.filename ELSE "Unknown"

\* a call returned for a passage without filename ranked before one with
C2_Witness ==
    /\ pc = "returned"
    /\ Len(log[1].docs) = 2
    /\ "filename" \notin DOMAIN log[1].docs[1].metadata
    /\ result.sources = <<"Unknown", "c1.txt">>

\* C3: when the generation backend fails (generate_content raises, or its
\* response carries no text), the call ends with that failure propagated: no
\* result record exists, and the backend was invoked exactly once.
C3_GenerationFailurePropagates ==
    (\E i \in GenerateCalls : log[i].outcome \in {"raised", "no_text"}) =>
        /\ pc = "raised"
        /\ result = NoResult
        /\ error # NoError
        /\ error.raised_by \in {"generate_content", "response.text"}
        /\ Cardinality(GenerateCalls) = 1

\* generate_content raised during a call
C3_Witness ==
    /\ pc = "raised"
    /\ error = [raised_by |-> "generate_content"]
    /\ log[2].outcome = "raised"

\* C4: when the index returns no passage to check_compliance (top_k = 0
\* included), the backend is still invoked, with a prompt in which nothing
\* stands between the CONTRACT SECTIONS header and the QUERY line; the call
\* raises nothing of its own, and a result it returns has sources = [].
C4_EmptyRetrievalStillGenerates ==
    (/\ InCall /\ frame.op = "check_compliance"
     /\ log[1].outcome = "returned" /\ log[1].docs = <<>>) =>
        /\ Len(log) = 2
        /\ log[2].call = "generate_content"
        /\ Contains(log[2].prompt, <<"\n\nCONTRACT SECTIONS:\n", "\n\nQUERY: ">>)
        /\ pc \in {"generating", "returned", "raised"}
        /\ pc = "returned" => (result.sources = <<>> /\ result.num_sources = 0)
        /\ pc = "raised" => error.raised_by \in {"generate_content", "response.text"}

\* check_compliance(q, 0) returned a result
C4_Witness ==
    /\ pc = "returned" /\ frame.op = "check_compliance"
    /\ frame.top_k = 0 /\ log[2].outcome = "returned" /\ result.sources = <<>>

LastRecordFor(members, k) ==
    members[CHOOSE i \in 1..Len(members) :
               /\ members[i][1] = k
               /\ \A j \in (i + 1)..Len(members) : members[j][1] # k][2]

C6_RulesInCompliancePromptOnly ==
    \A g \in GenerateCalls :
        LET rules == self.compliance_rules IN
        IF frame.op = "check_compliance"
        THEN /\ Contains(log[g].prompt, JsonDumps(rules))
             /\ \A i \in 1..Len(rules) : Contains(log[g].prompt, DumpItem(rules[i]))
        ELSE Tokens(log[g].prompt) \cap Tokens(JsonDumps(rules)) = {}

\* check_compliance invoked the backend over a catalogue of two rules, one
\* of them not HIGH
C6_Witness ==
    /\ pc = "generating" /\ frame.op = "check_compliance"
    /\ Len(self.compliance_rules) = 2
    /\ \E i \in 1..2 : self.compliance_rules[i].value = RuleLow

\* C8: within a call exactly one search is issued, first; the backend is
\* invoked at most once, only after the search returned, never after it raised;
\* a call that returns has made both calls.
C8_SearchThenGenerateOnce ==
    InCall =>
        /\ SearchCalls = {1}
        /\ Cardinality(GenerateCalls) <= 1
        /\ \A g \in GenerateCalls : g = 2 /\ log[1].outcome = "returned"
        /\ log[1].outcome = "raised" => (GenerateCalls = {} /\ pc = "raised")
        /\ pc = "searching" <=> log[1].outcome = "pending"
        /\ pc = "returned" => (Len(log) = 2 /\ log[2].outcome = "returned")

\* the index search raised during a call
C8_Witness ==
    /\ pc = "raised"
    /\ error = [raised_by |-> "similarity_search"]
    /\ Len(log) = 1

\* C9: whatever calls were made, the checker's attributes are the ones its
\* constructor set: the catalogue loaded from the file and the two handles,
\* and nothing else.
C9_CheckerStateUnchanged ==
    ctor = "constructed" =>
        /\ DOMAIN self = {"vectorstore", "llm", "compliance_rules"}
        /\ self.compliance_rules = JsonLoad(rules_file)
        /\ self.vectorstore = "vectorstore" /\ self.llm = "llm"

\* an answer_question call returned on a checker holding two rules
C9_Witness ==
    /\ pc = "returned" /\ frame.op = "answer_question"
    /\ Len(self.compliance_rules) = 2

HighIds(rules) ==
    LET high == SelectSeq(rules, LAMBDA it :
                    "severity" \in DOMAIN it.value /\ it.value.severity = "HIGH")
    IN  [i \in 1..Len(high) |-> high[i].key]

IsPrefix(p, q) == Len(p) <= Len(q) /\ SubSeq(q, 1, Len(p)) = p

\* C7 (as stated): a completed render under the filter {HIGH} shows exactly
\* the HIGH rules in catalogue order, and fewer rules than the catalogue holds.
C7_HighFilterIsStrictSubset ==
    (page = "rendered" /\ severity_filter = {"HIGH"}) =>
        /\ shown = HighIds(app_rules)
        /\ Len(shown) < Len(app_rules)

\* C7 (amended): a completed render under the filter {HIGH} shows exactly the
\* HIGH rules in catalogue order; they are fewer than the catalogue's rules
\* exactly when some rule is not HIGH.  A render that raises KeyError has
\* shown, in order, HIGH rules from the start of the catalogue only.
C7_HighFilterShowsHighRulesInOrder ==
    (page \in {"rendered", "raised"} /\ severity_filter = {"HIGH"}) =>
        /\ IsPrefix(shown, HighIds(app_rules))
        /\ page = "rendered" =>
              /\ shown = HighIds(app_rules)
              /\ Len(shown) < Len(app_rules) <=>
                    \E i \in 1..Len(app_rules) : app_rules[i].value.severity # "HIGH"

\* a completed render under {HIGH} of a catalogue of two rules, both HIGH
C7_Witness ==
    /\ page = "rendered" /\ severity_filter = {"HIGH"}
    /\ Len(app_rules) = 2 /\ Len(shown) = 2

====
